---------------------------- MODULE Spec2Model ----------------------------
(***************************************************************************)
(* Huffman coding core of huffmanv2.py: HuffmanNode, HuffmanCoding         *)
(* (build_frequency_dict, build_heap, merge_nodes, build_codes, compress,  *)
(* decompress) and the instance reset of HuffmanApp.start_new_compression. *)
(*                                                                         *)
(* A text is a sequence of one-character strings, a code a sequence of the *)
(* characters "0" and "1".  A Python dict is a function; the frequency     *)
(* dict, whose iteration order build_heap depends on, is a sequence of     *)
(* <<char, freq>> pairs in insertion order.  Python positions are 0-based; *)
(* At and Put translate them.                                              *)
(***************************************************************************)
EXTENDS Integers, Sequences, FiniteSets

\* Longest text drawn over Alphabet.
MaxLen == 3
\* Number of compress calls made on one HuffmanCoding instance.
MaxRuns == 2

Alphabet == {"a", "b", "c"}
\* "abacabad" and "aaaa", the two worked inputs.
Abacabad == <<"a", "b", "a", "c", "a", "b", "a", "d">>
Aaaa == <<"a", "a", "a", "a">>
Texts == UNION {[1..n -> Alphabet] : n \in 0..MaxLen} \cup {Abacabad, Aaaa}

VARIABLES
    codes,            \* self.codes
    reverse_mapping,  \* self.reverse_mapping
    root,             \* self.root
    pc,               \* position of the caller in compress / decompress
    text,             \* argument of the current (or last) compress call
    heap,             \* the heap local to compress
    node1, node2,     \* the two nodes popped by the last merge iteration
    merges,           \* iterations of the merge loop in the current call
    encoded,          \* value returned by the last compress
    dinput,           \* argument of the last decompress call
    decoded,          \* value returned by the last decompress
    err,              \* exception raised by the last call ("none": returned)
    runs              \* compress calls made on this instance

vars == <<codes, reverse_mapping, root, pc, text, heap, node1, node2, merges,
          encoded, dinput, decoded, err, runs>>

---------------------------------------------------------------------------
\* Python's None, as a node reference and as a node's char.
None == [none |-> TRUE]
NoneChar == "None"

EmptyDict == [k \in {} |-> k]
DictSet(d, k, v) == [x \in (DOMAIN d) \cup {k} |-> IF x = k THEN v ELSE d[x]]

At(s, i) == s[i + 1]
Put(s, i, v) == [s EXCEPT ![i + 1] = v]

\* HuffmanNode.__init__
HuffmanNode(char, freq) ==
    [char |-> char, freq |-> freq, left |-> None, right |-> None]

\* HuffmanNode.__lt__
ltFlip(a, b) == a.freq > b.freq
lt(a, b) == a.freq < b.freq

---------------------------------------------------------------------------
\* frequency[char] += 1 on the insertion-ordered defaultdict(int)
RECURSIVE Bump(_, _)
Bump(frequency, char) ==
    IF frequency = <<>> THEN <<<<char, 1>>>>
    ELSE IF Head(frequency)[1] = char
         THEN <<<<char, Head(frequency)[2] + 1>>>> \o Tail(frequency)
         ELSE <<Head(frequency)>> \o Bump(Tail(frequency), char)

RECURSIVE FrequencyLoop(_, _)
FrequencyLoop(frequency, rest) ==
    IF rest = <<>> THEN frequency
    ELSE FrequencyLoop(Bump(frequency, Head(rest)), Tail(rest))

build_frequency_dict(t) == FrequencyLoop(<<>>, t)

---------------------------------------------------------------------------
\* heapq._siftdown(heap, startpos, pos)
RECURSIVE SiftdownLoop(_, _, _, _)
SiftdownLoop(h, startpos, pos, newitem) ==
    IF pos > startpos
    THEN LET parentpos == (pos - 1) \div 2
             parent == At(h, parentpos)
         IN  IF lt(newitem, parent)
             THEN SiftdownLoop(Put(h, pos, parent), startpos, parentpos, newitem)
             ELSE Put(h, pos, newitem)
    ELSE Put(h, pos, newitem)

siftdown(h, startpos, pos) == SiftdownLoop(h, startpos, pos, At(h, pos))

\* heapq._siftup(heap, pos): bubble the smaller child up to a leaf, then
\* sift the displaced item down from there.
RECURSIVE SiftupLoop(_, _, _)
SiftupLoop(h, pos, newitem) ==
    LET endpos == Len(h)
        childpos == 2 * pos + 1
        rightpos == childpos + 1
        pick == IF rightpos < endpos /\ ~lt(At(h, childpos), At(h, rightpos))
                THEN rightpos ELSE childpos
    IN  IF childpos < endpos
        THEN SiftupLoop(Put(h, pos, At(h, pick)), pick, newitem)
        ELSE siftdown(Put(h, pos, newitem), 0, pos)

siftup(h, pos) == SiftupLoop(h, pos, At(h, pos))

\* heapq.heappush(heap, item)
heappush(h, item) == siftdown(Append(h, item), 0, Len(h))

\* heapq.heappop(heap): the item returned and the heap left
heappopLast(h) ==
    [item |-> h[Len(h)], heap |-> SubSeq(h, 1, Len(h) - 1)]
heappop(h) ==
    LET lastelt == h[Len(h)]
        shrunk == SubSeq(h, 1, Len(h) - 1)
    IN  IF shrunk # <<>>
        THEN [item |-> At(shrunk, 0), heap |-> siftup(Put(shrunk, 0, lastelt), 0)]
        ELSE [item |-> lastelt, heap |-> shrunk]

RECURSIVE HeapLoop(_, _)
HeapLoop(h, items) ==
    IF items = <<>> THEN h
    ELSE HeapLoop(heappush(h, HuffmanNode(Head(items)[1], Head(items)[2])),
                  Tail(items))

build_heap(frequency) == HeapLoop(<<>>, frequency)

---------------------------------------------------------------------------
\* merge_nodes: the loop condition, the merged node, the final heap[0]
LoopCondLate(h) == Len(h) > 2
LoopCond(h) == Len(h) > 1

MergedLeftOnly(n1, n2) ==
    [char |-> NoneChar, freq |-> n1.freq, left |-> n1, right |-> n2]
Merged(n1, n2) ==
    [char |-> NoneChar, freq |-> n1.freq + n2.freq, left |-> n1, right |-> n2]

HeapFirstOrNone(h) ==
    IF h = <<>> THEN [err |-> "none", val |-> None]
    ELSE [err |-> "none", val |-> At(h, 0)]
HeapFirst(h) ==
    IF h = <<>> THEN [err |-> "IndexError", val |-> None]
    ELSE [err |-> "none", val |-> At(h, 0)]

---------------------------------------------------------------------------
\* build_codes_helper: the code passed to the left and to the right child
LeftCode(current_code) == Append(current_code, "0")
RightCodeZero(current_code) == Append(current_code, "0")
RightCode(current_code) == Append(current_code, "1")

\* st is the pair of dicts the recursion writes to
RECURSIVE build_codes_helper(_, _, _)
build_codes_helper(n, current_code, st) ==
    IF n = None THEN st
    ELSE LET st1 == IF n.char # NoneChar
                    THEN [codes |-> DictSet(st.codes, n.char, current_code),
                          reverse_mapping |->
                              DictSet(st.reverse_mapping, current_code, n.char)]
                    ELSE st
             st2 == build_codes_helper(n.left, LeftCode(current_code), st1)
         IN  build_codes_helper(n.right, RightCode(current_code), st2)

build_codes(n, st) == build_codes_helper(n, <<>>, st)

\* "".join(self.codes[char] for char in text)
RECURSIVE Encode(_, _)
Encode(cds, t) ==
    IF t = <<>> THEN <<>> ELSE cds[Head(t)] \o Encode(cds, Tail(t))

\* decompress: the loop over the bits, keeping both locals
RECURSIVE DecompressLoop(_, _, _, _)
DecompressLoop(rev, bits, current_code, decoded_text) ==
    IF bits = <<>>
    THEN [current_code |-> current_code, decoded_text |-> decoded_text]
    ELSE LET cc == Append(current_code, Head(bits))
         IN  IF cc \in DOMAIN rev
             THEN DecompressLoop(rev, Tail(bits), <<>>,
                                 Append(decoded_text, rev[cc]))
             ELSE DecompressLoop(rev, Tail(bits), cc, decoded_text)

decompress(rev, bits) == DecompressLoop(rev, bits, <<>>, <<>>)

---------------------------------------------------------------------------
Init ==
    /\ codes = EmptyDict
    /\ reverse_mapping = EmptyDict
    /\ root = None
    /\ pc = "idle"
    /\ text = <<>>
    /\ heap = <<>>
    /\ node1 = None
    /\ node2 = None
    /\ merges = 0
    /\ encoded = <<>>
    /\ dinput = <<>>
    /\ decoded = <<>>
    /\ err = "none"
    /\ runs = 0

\* No call is in progress.
AtRest == pc \in {"idle", "compressed", "decompressed", "failed"}

\* compress(text), up to the call of merge_nodes
CompressBegin(t) ==
    /\ AtRest
    /\ runs < MaxRuns
    /\ text' = t
    /\ heap' = build_heap(build_frequency_dict(t))
    /\ pc' = "merge"
    /\ runs' = runs + 1
    /\ merges' = 0
    /\ node1' = None
    /\ node2' = None
    /\ encoded' = <<>>
    /\ dinput' = <<>>
    /\ decoded' = <<>>
    /\ err' = "none"
    /\ UNCHANGED <<codes, reverse_mapping, root>>

\* one iteration of the while loop of merge_nodes
MergeStep ==
    /\ pc = "merge"
    /\ LoopCond(heap)
    /\ LET p1 == heappop(heap)
           p2 == heappop(p1.heap)
       IN  /\ node1' = p1.item
           /\ node2' = p2.item
           /\ heap' = heappush(p2.heap, Merged(p1.item, p2.item))
    /\ merges' = merges + 1
    /\ UNCHANGED <<codes, reverse_mapping, root, pc, text, encoded, dinput,
                   decoded, err, runs>>

\* self.root = heap[0]; return self.root
MergeReturn ==
    /\ pc = "merge"
    /\ ~LoopCond(heap)
    /\ LET r == HeapFirst(heap)
       IN  IF r.err # "none"
           THEN /\ err' = r.err
                /\ pc' = "failed"
                /\ root' = root
           ELSE /\ err' = "none"
                /\ pc' = "build_codes"
                /\ root' = r.val
    /\ UNCHANGED <<codes, reverse_mapping, text, heap, node1, node2, merges,
                   encoded, dinput, decoded, runs>>

\* self.build_codes(root), then the encoding of the text
BuildCodesAndEncode ==
    /\ pc = "build_codes"
    /\ LET st == build_codes(root, [codes |-> codes,
                                    reverse_mapping |-> reverse_mapping])
       IN  /\ codes' = st.codes
           /\ reverse_mapping' = st.reverse_mapping
           /\ encoded' = Encode(st.codes, text)
    /\ pc' = "compressed"
    /\ UNCHANGED <<root, text, heap, node1, node2, merges, dinput, decoded,
                   err, runs>>

\* decompress(bits), bits being the first k bits of the compress output
Decompress(k) ==
    /\ pc = "compressed"
    /\ dinput' = SubSeq(encoded, 1, k)
    /\ decoded' = decompress(reverse_mapping, SubSeq(encoded, 1, k)).decoded_text
    /\ err' = "none"
    /\ pc' = "decompressed"
    /\ UNCHANGED <<codes, reverse_mapping, root, text, heap, node1, node2,
                   merges, encoded, runs>>

\* HuffmanApp.start_new_compression: self.huffman = HuffmanCoding()
StartNewCompression ==
    /\ AtRest
    /\ runs > 0
    /\ codes' = EmptyDict
    /\ reverse_mapping' = EmptyDict
    /\ root' = None
    /\ pc' = "idle"
    /\ text' = <<>>
    /\ heap' = <<>>
    /\ node1' = None
    /\ node2' = None
    /\ merges' = 0
    /\ encoded' = <<>>
    /\ dinput' = <<>>
    /\ decoded' = <<>>
    /\ err' = "none"
    /\ runs' = 0

Next ==
    \/ \E t \in Texts : CompressBegin(t)
    \/ MergeStep
    \/ MergeReturn
    \/ BuildCodesAndEncode
    \/ \E k \in 0..Len(encoded) : Decompress(k)
    \/ StartNewCompression

Spec == Init /\ [][Next]_vars

---------------------------------------------------------------------------
\* Vocabulary of the properties.
Symbols(t) == {t[i] : i \in 1..Len(t)}
Count(c, t) == Cardinality({i \in 1..Len(t) : t[i] = c})
NumSymbols == Cardinality(Symbols(text))
IsPrefix(p, q) == Len(p) <= Len(q) /\ SubSeq(q, 1, Len(p)) = p
IsLeafNode(n) == n.left = None /\ n.right = None

RECURSIVE NumLeaves(_)
NumLeaves(n) ==
    IF n = None THEN 0
    ELSE IF IsLeafNode(n) THEN 1
    ELSE NumLeaves(n.left) + NumLeaves(n.right)

RECURSIVE NumInternal(_)
NumInternal(n) ==
    IF n = None THEN 0
    ELSE IF IsLeafNode(n) THEN 0
    ELSE 1 + NumInternal(n.left) + NumInternal(n.right)

RECURSIVE LeafChars(_)
LeafChars(n) ==
    IF n = None THEN {}
    ELSE IF IsLeafNode(n) THEN {n.char}
    ELSE LeafChars(n.left) \cup LeafChars(n.right)

\* Every node is a leaf holding a symbol or a symbol-less node with two children.
RECURSIVE TwoChildren(_)
TwoChildren(n) ==
    IF IsLeafNode(n) THEN n.char # NoneChar
    ELSE /\ n.char = NoneChar
         /\ n.left # None /\ n.right # None
         /\ TwoChildren(n.left) /\ TwoChildren(n.right)

RECURSIVE FreqConserved(_)
FreqConserved(n) ==
    IF n = None \/ IsLeafNode(n) THEN TRUE
    ELSE /\ n.left # None /\ n.right # None
         /\ n.freq = n.left.freq + n.right.freq
         /\ FreqConserved(n.left) /\ FreqConserved(n.right)

RECURSIVE LeafFreqIsCount(_, _)
LeafFreqIsCount(n, t) ==
    IF n = None THEN TRUE
    ELSE IF IsLeafNode(n) THEN n.freq = Count(n.char, t)
    ELSE LeafFreqIsCount(n.left, t) /\ LeafFreqIsCount(n.right, t)

RECURSIVE LeftLeRight(_)
LeftLeRight(n) ==
    IF n = None \/ IsLeafNode(n) THEN TRUE
    ELSE /\ n.left.freq <= n.right.freq
         /\ LeftLeRight(n.left) /\ LeftLeRight(n.right)

\* The tree of the current text has been built.
TreeBuilt == pc \in {"build_codes", "compressed", "decompressed"}
\* compress has returned for the current text.
Compressed == pc \in {"compressed", "decompressed"}
\* The positions of the compress output at which a code ends.
Boundaries == {Len(Encode(codes, SubSeq(text, 1, i))) : i \in 0..Len(text)}
\* What decompress leaves in current_code at the end of its input.
Leftover == decompress(reverse_mapping, dinput).current_code

---------------------------------------------------------------------------
\* C1: on an instance with no earlier compress call, decompress(compress(S))
\* returns exactly S for every non-empty S, single-symbol inputs included.
RoundTripFresh ==
    (pc = "decompressed" /\ runs = 1 /\ text # <<>> /\ dinput = encoded)
        => decoded = text

\* C2: after any sequence of compress calls on one instance, codes and
\* reverse_mapping hold entries only for the symbols of the most recent input,
\* and compress-then-decompress gives what a fresh instance gives.
NoLeakBetweenRuns ==
    Compressed =>
        /\ DOMAIN codes \subseteq Symbols(text)
        /\ \A c \in DOMAIN reverse_mapping :
               /\ reverse_mapping[c] \in Symbols(text)
               /\ codes[reverse_mapping[c]] = c
        /\ (pc = "decompressed" /\ dinput = encoded) =>
               decoded = decompress(build_codes(root,
                                        [codes |-> EmptyDict,
                                         reverse_mapping |-> EmptyDict]
                                    ).reverse_mapping, encoded).decoded_text

SingleSymbolOneBit ==
    (pc = "compressed" /\ runs = 1 /\ NumSymbols = 1) =>
        /\ IsLeafNode(root)
        /\ Len(codes[text[1]]) = 1
        /\ Len(encoded) = Len(text)

\* C5: decompress of a valid compress output cut in the middle of a code, with
\* bits left in the buffer that match no code, fails with MalformedStreamError.
TruncatedStreamFails ==
    (/\ pc = "decompressed"
     /\ runs = 1
     /\ NumSymbols >= 2
     /\ Len(dinput) \notin Boundaries
     /\ Leftover # <<>>
     /\ Leftover \notin DOMAIN reverse_mapping)
        => err = "MalformedStreamError"

FrequencyConservation ==
    /\ \A i \in 1..Len(heap) : FreqConserved(heap[i])
    /\ TreeBuilt =>
           /\ FreqConserved(root)
           /\ LeafFreqIsCount(root, text)
           /\ root.freq = Len(text)

FrequencyConservationWitness ==
    /\ pc = "build_codes"
    /\ text = Abacabad
    /\ NumInternal(root) = 3
    /\ root.freq = 8

\* C8: the tree of an input with N >= 1 distinct symbols has N leaves, one per
\* symbol, and N-1 internal nodes with two children each; merge_nodes makes
\* N-1 merges and stops with one node in the heap.
LeafCount ==
    TreeBuilt =>
        /\ NumLeaves(root) = NumSymbols
        /\ LeafChars(root) = Symbols(text)
        /\ NumInternal(root) = NumSymbols - 1
        /\ TwoChildren(root)
        /\ merges = NumSymbols - 1
        /\ Len(heap) = 1

LeafCountWitness ==
    /\ pc = "build_codes"
    /\ NumSymbols = 3
    /\ merges = 2
    /\ NumLeaves(root) = 3

\* C9: each merge iteration removes two nodes of smallest frequency, no node
\* left in the heap is lower than either, the first removed is the left child
\* and the second the right, so left.freq <= right.freq in every internal node.
GreedyMinimumMerge ==
    /\ (pc = "merge" /\ merges > 0) =>
           /\ node1.freq <= node2.freq
           /\ \A i \in 1..Len(heap) : heap[i].freq >= node2.freq
           /\ \E i \in 1..Len(heap) :
                  heap[i].left = node1 /\ heap[i].right = node2
    /\ \A i \in 1..Len(heap) : LeftLeRight(heap[i])
    /\ LeftLeRight(root)

GreedyMinimumMergeWitness ==
    /\ pc = "merge"
    /\ merges = 2
    /\ Len(heap) = 2
    /\ node1.freq <= node2.freq
    /\ node2.freq < heap[1].freq

\* C10: for an input with at least two distinct symbols, a symbol occurring
\* strictly more often than another never has a strictly longer code; for
\* "abacabad", a has the shortest code and c and d equal, longest codes.
CodeLengthsFollowFrequencies ==
    (Compressed /\ NumSymbols >= 2) =>
        /\ \A x, y \in Symbols(text) :
               Count(x, text) > Count(y, text) => Len(codes[x]) <= Len(codes[y])
        /\ text = Abacabad =>
               /\ \A s \in Symbols(text) :
                      /\ Len(codes["a"]) <= Len(codes[s])
                      /\ Len(codes[s]) <= Len(codes["c"])
               /\ Len(codes["c"]) = Len(codes["d"])

CodeLengthsWitness ==
    /\ pc = "compressed"
    /\ text = Abacabad
    /\ Len(codes["a"]) = 1
    /\ Len(codes["b"]) = 2
    /\ Len(codes["c"]) = 3

=============================================================================
